---------------------------- MODULE Spec2Model ----------------------------
(***************************************************************************)
(* SLOMonitor (src/src/slo_monitor.py): the SLO evaluation engine.         *)
(*                                                                         *)
(* Percentages are held in hundredths of a percent (99.9% is 9990), the    *)
(* scale of the DECIMAL(x,2) columns.  A value that Python holds unrounded *)
(* (a float or a Decimal quotient) is an exact fraction [num, den] of      *)
(* hundredths; a value stored in a DECIMAL(x,2) column is the integer      *)
(* Quantize of that fraction.  The inputs enumerated below are ones for    *)
(* which the float arithmetic of lines 123 and 137 is exact.               *)
(*                                                                         *)
(* Init is the state reached by run_monitoring after connect() and setup():*)
(* the tables exist, slo_definitions may already hold a row written by an  *)
(* earlier run or another writer, and self.slos is empty.                  *)
(***************************************************************************)
EXTENDS Integers, Sequences, FiniteSets, TLC

VARIABLES
    defs,          \* table slo_definitions: slo_id -> row
    slos,          \* self.slos: slo_id -> slo dict
    measurements,  \* table slo_measurements, in insertion (= timestamp) order
    alerts,        \* table slo_alerts, in insertion order
    now,           \* the database clock NOW(), in hours
    pc,            \* position of the caller's evaluation
    args,          \* arguments of the simulate_measurements call in progress
    measurement,   \* the dict returned by simulate_measurements
    fetched,       \* the list `measurements` of calculate_burn_rate (line 176)
    burn_rate,     \* the value returned by calculate_burn_rate
    err,           \* the exception raised by the call in progress
    before,        \* both stores as they were when the evaluation began
    defs0          \* slo_definitions as it was before define_slos ran

vars == <<defs, slos, measurements, alerts, now, pc, args, measurement,
          fetched, burn_rate, err, before, defs0>>

-----------------------------------------------------------------------------
(* Bounds of the model *)

MaxMeasurements == 2
MaxTime == 1

(* success_rate arguments, in hundredths of a percent *)
Rates == {10000, 9950, 9600, 9550, 10100}

(* target_percentage of a row that exists before define_slos runs *)
PreTargets == {10000, 9700}

UnknownId == "no-such-slo"

-----------------------------------------------------------------------------
(* Program constants *)

total == 1000
Hour == 1
BudgetLowLimit == 2000
BudgetCriticalLimit == 1000
BurnRateLimit == 500

SLOS ==
    << [slo_id |-> "db-availability", service_name |-> "database",
        slo_type |-> "availability", target |-> 9990, window |-> 720],
       [slo_id |-> "query-latency", service_name |-> "database",
        slo_type |-> "latency", target |-> 9500, window |-> 168],
       [slo_id |-> "api-success-rate", service_name |-> "api",
        slo_type |-> "success_rate", target |-> 9950, window |-> 168] >>

SloIds == {SLOS[i].slo_id : i \in 1..Len(SLOS)}

-----------------------------------------------------------------------------
(* Arithmetic *)

Abs(x) == IF x < 0 THEN -x ELSE x

RECURSIVE GCD(_, _)
GCD(a, b) == IF b = 0 THEN a ELSE GCD(b, a % b)

(* the exact quotient n / d, d # 0, in lowest terms with den > 0 *)
Frac(n, d) ==
    LET g == GCD(Abs(n), Abs(d))
        s == IF d < 0 THEN -1 ELSE 1
    IN  [num |-> (s * n) \div g, den |-> (s * d) \div g]

Zero == [num |-> 0, den |-> 1]

QLess(q, k) == q.num < k * q.den
QGreater(q, k) == q.num > k * q.den

(* int(): truncation towards zero *)
Trunc(n, d) == IF n >= 0 THEN n \div d ELSE -((-n) \div d)

(* rounding of a value to the scale of a DECIMAL(x,2) column: half away from zero *)
Quantize(q) ==
    LET r == (2 * Abs(q.num) + q.den) \div (2 * q.den)
    IN  IF q.num < 0 THEN -r ELSE r


-----------------------------------------------------------------------------
(* Storage *)

NoRow == <<>>

(* a lookup that answers a missing slo_id with a default definition *)
fetchone_or_default(d, slo_id) ==
    IF slo_id \in DOMAIN d
    THEN <<d[slo_id]>>
    ELSE << [service_name |-> "", slo_type |-> "", target_percentage |-> 9900,
             measurement_window_hours |-> 24] >>

(* cursor.fetchone() after the SELECT of lines 128-132: <<row>>, or None *)
fetchone(d, slo_id) == IF slo_id \in DOMAIN d THEN <<d[slo_id]>> ELSE NoRow

Row(slo) ==
    [service_name |-> slo.service_name, slo_type |-> slo.slo_type,
     target_percentage |-> slo.target,
     measurement_window_hours |-> slo.window]

(* INSERT INTO slo_definitions ... ON CONFLICT (slo_id) DO NOTHING *)
InsertDefinition(d, slo) ==
    IF slo.slo_id \in DOMAIN d
    THEN d
    ELSE [id \in DOMAIN d \cup {slo.slo_id} |->
             IF id = slo.slo_id THEN Row(slo) ELSE d[id]]

(* self.slos[slo['slo_id']] = slo *)
SetSlo(s, slo) ==
    [id \in DOMAIN s \cup {slo.slo_id} |->
        IF id = slo.slo_id THEN slo ELSE s[id]]

(* INSERT INTO slo_measurements; timestamp DEFAULT NOW() *)
InsertMeasurement(store, slo_id, successes, count, current_slo, error_budget) ==
    Append(store, [slo_id |-> slo_id, timestamp |-> now,
                   success_count |-> successes,
                   total_count |-> count,
                   current_slo |-> Quantize(current_slo),
                   error_budget_remaining |-> Quantize(error_budget)])

(* an insert that suppresses an alert already raised for the slo_id *)
InsertAlertOnce(store, slo_id, severity, message, rate) ==
    IF \E i \in 1..Len(store) :
           store[i].slo_id = slo_id /\ store[i].message = message
    THEN store
    ELSE Append(store, [slo_id |-> slo_id, triggered_at |-> now,
                        severity |-> severity, message |-> message,
                        burn_rate |-> Quantize(rate)])

(* INSERT INTO slo_alerts; triggered_at DEFAULT NOW().  The message is its  *)
(* fixed prefix; the figures formatted into it are not modelled.            *)
InsertAlert(store, slo_id, severity, message, rate) ==
    Append(store, [slo_id |-> slo_id, triggered_at |-> now,
                   severity |-> severity, message |-> message,
                   burn_rate |-> Quantize(rate)])

(* the history query without its slo_id condition *)
BudgetHistoryOfAll(store, slo_id) ==
    LET InWindow(m) == m.timestamp > now - Hour
        rows == SelectSeq(store, InWindow)
    IN  [i \in 1..Len(rows) |-> rows[i].error_budget_remaining]

(* SELECT error_budget_remaining FROM slo_measurements WHERE slo_id = %s   *)
(* AND timestamp > NOW() - INTERVAL '1 hour' ORDER BY timestamp            *)
BudgetHistory(store, slo_id) ==
    LET InWindow(m) == m.slo_id = slo_id /\ m.timestamp > now - Hour
        rows == SelectSeq(store, InWindow)
    IN  [i \in 1..Len(rows) |-> rows[i].error_budget_remaining]

-----------------------------------------------------------------------------
(* simulate_measurements: the calculator *)

Successes(success_rate) == Trunc(total * success_rate, 10000)

CurrentSlo(successes) == Frac(successes * 10000, total)

AllowedErrors(target) == Frac(total * (10000 - target), 10000)

ActualErrors(successes) == total - successes

(* ((allowed_errors - actual_errors) / allowed_errors) * 100, allowed # 0 *)
ErrorBudgetRemaining(allowed, actual) ==
    LET diff == Frac(allowed.num - actual * allowed.den, allowed.den)
        ratio == Frac(diff.num * allowed.den, diff.den * allowed.num)
    IN  Frac(ratio.num * 10000, ratio.den)

(* the division of line 142 raises decimal.DivisionByZero (or            *)
(* InvalidOperation for 0/0) when allowed_errors is zero                  *)
DivisionRaises(allowed) == allowed.num = 0

-----------------------------------------------------------------------------
(* calculate_burn_rate *)

BurnRate(samples) ==
    IF Len(samples) < 2
    THEN Zero
    ELSE Frac(samples[1] - samples[Len(samples)], Len(samples))

-----------------------------------------------------------------------------
(* check_slo_alerts: the conditions of the three alerts *)

TargetViolation(m) == QLess(m.current_slo, m.target)

(* the budget rule with an inclusive limit *)
BudgetLowInclusive(m) == ~QGreater(m.error_budget, BudgetLowLimit)

BudgetLow(m) == QLess(m.error_budget, BudgetLowLimit)

BudgetSeverity(m) ==
    IF QLess(m.error_budget, BudgetCriticalLimit) THEN "critical" ELSE "high"

HighBurnRate(rate) == QGreater(rate, BurnRateLimit)

MsgTarget == "SLO below target"
MsgBudget == "Error budget low"
MsgBurn == "High error budget burn rate"

-----------------------------------------------------------------------------
(* print_slo_dashboard: the row printed for each slo_id of self.slos that  *)
(* has a measurement; it reads the target from self.slos                   *)

LatestMeasurement(slo_id) ==
    LET Mine(m) == m.slo_id = slo_id
        rows == SelectSeq(measurements, Mine)
    IN  IF Len(rows) = 0 THEN NoRow ELSE <<rows[Len(rows)]>>

Status(current_slo, error_budget, target) ==
    IF current_slo >= target /\ error_budget > 5000 THEN "HEALTHY"
    ELSE IF current_slo >= target /\ error_budget > 2000 THEN "WARNING"
    ELSE "CRITICAL"

print_slo_dashboard ==
    [slo_id \in {id \in DOMAIN slos : LatestMeasurement(id) # NoRow} |->
        LET r == LatestMeasurement(slo_id)[1]
            target == slos[slo_id].target
        IN  [target |-> target,
             current_slo |-> r.current_slo,
             error_budget |-> r.error_budget_remaining,
             status |-> Status(r.current_slo, r.error_budget_remaining, target)]]

-----------------------------------------------------------------------------
(* State machine *)

NoMeasurement ==
    [slo_id |-> "", current_slo |-> Zero, target |-> 0, error_budget |-> Zero,
     success_count |-> 0, total_count |-> 0]
NoArgs == [slo_id |-> "", success_rate |-> 0]
NoStores == [m |-> <<>>, a |-> <<>>]

(* slo_definitions before define_slos: empty, or holding a row for the    *)
(* first slo_id of the list with another target                           *)
PreExisting ==
    {[id \in {} |-> 0]} \cup
    {[id \in {SLOS[1].slo_id} |-> [Row(SLOS[1]) EXCEPT !.target_percentage = t]] :
        t \in PreTargets}

Init ==
    /\ defs \in PreExisting
    /\ defs0 = defs
    /\ slos = [id \in {} |-> 0]
    /\ measurements = <<>>
    /\ alerts = <<>>
    /\ now = 0
    /\ pc = "start"
    /\ args = NoArgs
    /\ measurement = NoMeasurement
    /\ fetched = <<>>
    /\ burn_rate = Zero
    /\ err = "none"
    /\ before = NoStores

RECURSIVE DefineRows(_, _)
DefineRows(i, d) ==
    IF i > Len(SLOS) THEN d ELSE DefineRows(i + 1, InsertDefinition(d, SLOS[i]))

RECURSIVE DefineSlos(_, _)
DefineSlos(i, s) ==
    IF i > Len(SLOS) THEN s ELSE DefineSlos(i + 1, SetSlo(s, SLOS[i]))

define_slos ==
    /\ pc = "start"
    /\ defs' = DefineRows(1, defs)
    /\ slos' = DefineSlos(1, slos)
    /\ pc' = "idle"
    /\ UNCHANGED <<measurements, alerts, now, args, measurement, fetched,
                   burn_rate, err, before, defs0>>

simulate_measurements(slo_id, success_rate) ==
    /\ pc = "idle"
    /\ Len(measurements) < MaxMeasurements
    /\ args' = [slo_id |-> slo_id, success_rate |-> success_rate]
    /\ before' = [m |-> measurements, a |-> alerts]
    /\ LET successes == Successes(success_rate)
           row == fetchone(defs, slo_id)
       IN  IF row = NoRow
           THEN \* target, window = None
                /\ err' = "TypeError"
                /\ pc' = "raised"
                /\ UNCHANGED <<measurements, measurement>>
           ELSE LET target == row[1].target_percentage
                    current_slo == CurrentSlo(successes)
                    allowed_errors == AllowedErrors(target)
                    actual_errors == ActualErrors(successes)
                IN  IF DivisionRaises(allowed_errors)
                    THEN /\ err' = "ZeroDivision"
                         /\ pc' = "raised"
                         /\ UNCHANGED <<measurements, measurement>>
                    ELSE LET error_budget_remaining ==
                                 ErrorBudgetRemaining(allowed_errors, actual_errors)
                         IN  /\ measurements' =
                                    InsertMeasurement(measurements, slo_id,
                                        successes, total, current_slo,
                                        error_budget_remaining)
                             /\ measurement' =
                                    [slo_id |-> slo_id,
                                     current_slo |-> current_slo,
                                     target |-> target,
                                     error_budget |-> error_budget_remaining,
                                     success_count |-> successes,
                                     total_count |-> total]
                             /\ err' = "none"
                             /\ pc' = "measured"
    /\ UNCHANGED <<defs, slos, alerts, now, fetched, burn_rate, defs0>>

(* check_slo_alerts, lines 191-215: alerts 1 and 2 *)
Alert1(store, m) ==
    IF TargetViolation(m)
    THEN InsertAlert(store, m.slo_id, "high", MsgTarget, Zero)
    ELSE store

Alert2(store, m) ==
    IF BudgetLow(m)
    THEN InsertAlert(store, m.slo_id, BudgetSeverity(m), MsgBudget, Zero)
    ELSE store

(* alerts 1 and 2 held back until the burn rate is known *)
check_slo_alerts_12_deferred ==
    /\ pc = "measured"
    /\ pc' = "burn"
    /\ UNCHANGED <<defs, slos, measurements, alerts, now, args, measurement,
                   fetched, burn_rate, err, before, defs0>>

check_slo_alerts_12 ==
    /\ pc = "measured"
    /\ alerts' = Alert2(Alert1(alerts, measurement), measurement)
    /\ pc' = "burn"
    /\ UNCHANGED <<defs, slos, measurements, now, args, measurement, fetched,
                   burn_rate, err, before, defs0>>

(* check_slo_alerts, line 218: the call of calculate_burn_rate *)
calculate_burn_rate ==
    /\ pc = "burn"
    /\ fetched' = BudgetHistory(measurements, measurement.slo_id)
    /\ burn_rate' = BurnRate(fetched')
    /\ pc' = "alert3"
    /\ UNCHANGED <<defs, slos, measurements, alerts, now, args, measurement,
                   err, before, defs0>>

(* the SELECT of calculate_burn_rate fails: psycopg2 raises, and the      *)
(* exception leaves check_slo_alerts                                      *)
fetch_fails ==
    /\ pc = "burn"
    /\ err' = "StorageError"
    /\ pc' = "raised"
    /\ UNCHANGED <<defs, slos, measurements, alerts, now, args, measurement,
                   fetched, burn_rate, before, defs0>>

(* check_slo_alerts, lines 219-227: alert 3 *)
Alert3(store, m, rate) ==
    IF HighBurnRate(rate)
    THEN InsertAlert(store, m.slo_id, "critical", MsgBurn, rate)
    ELSE store

check_slo_alerts_3 ==
    /\ pc = "alert3"
    /\ alerts' = Alert3(alerts, measurement, burn_rate)
    /\ pc' = "done"
    /\ UNCHANGED <<defs, slos, measurements, now, args, measurement, fetched,
                   burn_rate, err, before, defs0>>

(* the evaluation is over (returned or raised); its locals are gone *)
next_iteration ==
    /\ pc \in {"done", "raised"}
    /\ pc' = "idle"
    /\ args' = NoArgs
    /\ measurement' = NoMeasurement
    /\ fetched' = <<>>
    /\ burn_rate' = Zero
    /\ err' = "none"
    /\ before' = NoStores
    /\ UNCHANGED <<defs, slos, measurements, alerts, now, defs0>>

(* an hour passes *)
Tick ==
    /\ now < MaxTime
    /\ now' = now + 1
    /\ UNCHANGED <<defs, slos, measurements, alerts, pc, args, measurement,
                   fetched, burn_rate, err, before, defs0>>

Next ==
    \/ define_slos
    \/ \E slo_id \in SloIds \cup {UnknownId}, success_rate \in Rates :
           simulate_measurements(slo_id, success_rate)
    \/ check_slo_alerts_12
    \/ calculate_burn_rate
    \/ fetch_fails
    \/ check_slo_alerts_3
    \/ next_iteration
    \/ Tick

Spec == Init /\ [][Next]_vars

TypeOK ==
    /\ DOMAIN defs \subseteq SloIds
    /\ Len(measurements) <= MaxMeasurements
    /\ now \in 0..MaxTime
    /\ pc \in {"start", "idle", "measured", "burn", "alert3", "done", "raised"}
    /\ err \in {"none", "TypeError", "ZeroDivision", "StorageError"}

-----------------------------------------------------------------------------
(* Vocabulary of the properties *)

IsPrefix(s, t) == Len(s) <= Len(t) /\ SubSeq(t, 1, Len(s)) = s

(* the records appended to a store since the evaluation began *)
NewAlerts == SubSeq(alerts, Len(before.a) + 1, Len(alerts))
NewMeasurements == SubSeq(measurements, Len(before.m) + 1, Len(measurements))

(* an alert without its triggered_at *)
Event(a) ==
    [slo_id |-> a.slo_id, severity |-> a.severity, message |-> a.message,
     burn_rate |-> a.burn_rate]
Events(s) == [i \in 1..Len(s) |-> Event(s[i])]

InEvaluation == pc \in {"measured", "burn", "alert3", "done", "raised"}
Called == pc \in {"measured", "raised"} /\ err # "StorageError"

(* the alerts the rules call for, in rule order *)
DueTarget(m) ==
    IF m.current_slo.num < m.target * m.current_slo.den
    THEN << [slo_id |-> m.slo_id, severity |-> "high", message |-> MsgTarget,
             burn_rate |-> 0] >>
    ELSE << >>
DueBudget(m) ==
    IF m.error_budget.num < 2000 * m.error_budget.den
    THEN << [slo_id |-> m.slo_id,
             severity |-> IF m.error_budget.num < 1000 * m.error_budget.den
                          THEN "critical" ELSE "high",
             message |-> MsgBudget, burn_rate |-> 0] >>
    ELSE << >>
DueBurn(m, rate) ==
    IF rate.num > 500 * rate.den
    THEN << [slo_id |-> m.slo_id, severity |-> "critical", message |-> MsgBurn,
             burn_rate |-> Quantize(rate)] >>
    ELSE << >>

CountSeq(s, Test(_)) == Len(SelectSeq(s, Test))

-----------------------------------------------------------------------------
(* C1: over a window of n >= 2 samples calculate_burn_rate returns         *)
(* (oldest - newest) / (n - 1), negative results included.                 *)
C1_BurnRatePerStep ==
    (pc \in {"alert3", "done"} /\ Len(fetched) >= 2) =>
        burn_rate = Frac(fetched[1] - fetched[Len(fetched)], Len(fetched) - 1)

(* C2: an evaluation appends the alerts of exactly the rules that hold, in  *)
(* the order target_violation, budget_low, burn_rate_high: 'high' with     *)
(* burn_rate 0 when current_slo < target; 'critical' below 10 and 'high'   *)
(* otherwise when error_budget < 20; 'critical' with the computed rate     *)
(* when burn_rate > 5; nothing at a value equal to its threshold.          *)
C2_AlertsFollowRules ==
    pc = "done" =>
        Events(NewAlerts) =
            DueTarget(measurement) \o DueBudget(measurement)
                \o DueBurn(measurement, burn_rate)

C2_Witness == pc = "done" /\ Len(NewAlerts) = 3

(* C3: a measurement with invalid counts is rejected with                   *)
(* InvalidMeasurement and never recorded: every record of the store has    *)
(* 0 <= success_count <= total_count, whatever success_rate was passed.    *)
C3_InvalidCountsRejected ==
    /\ \A i \in 1..Len(measurements) :
           /\ measurements[i].total_count > 0
           /\ 0 <= measurements[i].success_count
           /\ measurements[i].success_count <= measurements[i].total_count
    /\ (Called /\ args.slo_id \in DOMAIN defs
               /\ ~(0 <= Successes(args.success_rate)
                      /\ Successes(args.success_rate) <= total)) =>
           (pc = "raised" /\ measurements = before.m)

(* C4: with a target of 100% (allowed_errors <= 0) the budget calculation  *)
(* does not fail: error_budget_remaining is 0 if actual_errors > 0 and 100 *)
(* otherwise, and the measurement is recorded with that value.             *)
C4_FullTargetIsDefined ==
    (Called /\ args.slo_id \in DOMAIN defs
            /\ defs[args.slo_id].target_percentage = 10000) =>
        LET expected ==
                IF ActualErrors(Successes(args.success_rate)) > 0
                THEN 0 ELSE 10000
        IN  /\ pc = "measured"
            /\ measurement.error_budget = Frac(expected, 1)
            /\ Len(NewMeasurements) = 1
            /\ NewMeasurements[1].error_budget_remaining = expected

(* C5: an evaluation for a slo_id without a stored definition fails with   *)
(* an error before any write: both stores are as they were.                *)
C5_UnknownSloFailsBeforeWrites ==
    (InEvaluation /\ args.slo_id \notin DOMAIN defs) =>
        /\ pc = "raised"
        /\ err # "none"
        /\ measurements = before.m
        /\ alerts = before.a

C5_Witness ==
    /\ pc = "raised"
    /\ args.slo_id = UnknownId
    /\ Len(before.m) > 0
    /\ Len(before.a) > 0

C7_ShortWindowBurnsZero ==
    /\ (pc \in {"alert3", "done"} /\ Len(fetched) < 2) => burn_rate = Zero
    /\ (pc = "done"
           /\ \A i \in 1..Len(before.m) : before.m[i].slo_id # measurement.slo_id) =>
           /\ err = "none"
           /\ \A i \in 1..Len(NewAlerts) : NewAlerts[i].message # MsgBurn

C7_Witness ==
    /\ pc = "done"
    /\ Len(fetched) < 2
    /\ Len(before.m) > 0
    /\ \A i \in 1..Len(before.m) : before.m[i].slo_id # measurement.slo_id

(* C8: for valid inputs (0 <= success <= total, total > 0,                  *)
(* 0 < target <= 100) the calculator yields a result with current_slo in   *)
(* [0, 100] and error_budget_remaining <= 100, not clamped below 0: target *)
(* 99.9, total 1000, success 995 gives a negative budget.                  *)
C8_ResultInRange ==
    (Called /\ args.slo_id \in DOMAIN defs
            /\ 0 <= Successes(args.success_rate)
            /\ Successes(args.success_rate) <= total
            /\ defs[args.slo_id].target_percentage > 0
            /\ defs[args.slo_id].target_percentage <= 10000) =>
        /\ pc = "measured"
        /\ ~QLess(measurement.current_slo, 0)
        /\ ~QGreater(measurement.current_slo, 10000)
        /\ ~QGreater(measurement.error_budget, 10000)
        /\ (measurement.target = 9990 /\ measurement.success_count = 995) =>
               QLess(measurement.error_budget, 0)

(* C9: every successful evaluation appends exactly one measurement record, *)
(* also when its data equal an earlier one; a target_violation or          *)
(* budget_low condition that holds in k evaluations has appended k alerts  *)
(* of that kind; no record of either store is ever modified or removed.    *)
ViolatesTarget(r) ==
    r.success_count * 10000 < defs[r.slo_id].target_percentage * r.total_count
LowOnBudget(r) ==
    LET allowed == r.total_count * (10000 - defs[r.slo_id].target_percentage)
        actual == (r.total_count - r.success_count) * 10000
    IN  IF allowed > 0 THEN (allowed - actual) * 5 < allowed
                       ELSE (allowed - actual) * 5 > allowed

C9_State ==
    /\ pc = "measured" =>
           /\ Len(measurements) = Len(before.m) + 1
           /\ IsPrefix(before.m, measurements)
           /\ measurements[Len(measurements)].success_count
                  = Successes(args.success_rate)
    /\ pc \in {"idle", "burn", "alert3", "done", "raised"} =>
           \A id \in SloIds :
               LET Violating(r) == r.slo_id = id /\ ViolatesTarget(r)
                   Low(r) == r.slo_id = id /\ LowOnBudget(r)
                   TargetAlert(a) == a.slo_id = id /\ a.message = MsgTarget
                   BudgetAlert(a) == a.slo_id = id /\ a.message = MsgBudget
               IN  /\ CountSeq(alerts, TargetAlert) = CountSeq(measurements, Violating)
                   /\ CountSeq(alerts, BudgetAlert) = CountSeq(measurements, Low)

C9_Step == IsPrefix(measurements, measurements') /\ IsPrefix(alerts, alerts')

C9_AppendOnlyUnsuppressed == [](C9_State) /\ [][C9_Step]_vars

C9_Witness ==
    /\ pc = "done"
    /\ Len(measurements) = 2
    /\ measurements[1].slo_id = measurements[2].slo_id
    /\ measurements[1].success_count = measurements[2].success_count
    /\ Len(alerts) >= 2
    /\ alerts[1].message = MsgTarget
    /\ \E i \in 2..Len(alerts) :
           alerts[i].message = MsgTarget /\ alerts[i].slo_id = alerts[1].slo_id

(* C10: defining an SLO whose slo_id is already registered is a no-op:     *)
(* after define_slos the definition held for that slo_id is unchanged, and *)
(* the target used by evaluation (read from the store) and the target used *)
(* by the dashboard (read from self.slos) are both the first-registered.   *)
C10_FirstWriterWins ==
    pc # "start" =>
        \A id \in DOMAIN defs0 :
            /\ defs[id] = defs0[id]
            /\ fetchone(defs, id)[1].target_percentage = defs0[id].target_percentage
            /\ (InEvaluation /\ pc # "raised" /\ measurement.slo_id = id) =>
                   measurement.target = defs0[id].target_percentage
            /\ id \in DOMAIN print_slo_dashboard =>
                   print_slo_dashboard[id].target = defs0[id].target_percentage

=============================================================================
